---- MODULE Spec2Model ----
(***************************************************************************)
(* State-machine model of forge_sdk: ForgeClient (lazy transport handles,  *)
(* health probes, close) and RenderRequestBuilder (fluent setters,         *)
(* _build_payload, send / send_sync).                                      *)
(*                                                                         *)
(* Encoding of Python values: None is the empty tuple <<>>, any other      *)
(* value v is the one-element tuple <<v>>.  A dict is a function whose     *)
(* DOMAIN is its key set.  An enum member is its NAME; `.value` is the     *)
(* lookup of the name in the enum's table.                                 *)
(***************************************************************************)
EXTENDS Integers, Sequences, FiniteSets, TLC

VARIABLES
    builder,        \* the RenderRequestBuilder's fields
    source,         \* how the builder was made: [kind, text]
    called,         \* names of the setters called on the builder so far
    lastArg,        \* setter name -> argument of its last call
    ncalls,         \* number of builder calls made (bounded by MaxCalls)
    raised,         \* exception raised by the last builder call, or "none"
    barcodeCalls,   \* the pdf_barcode calls attempted, in call order
    attachCalls,    \* the arguments of the pdf_attach calls, in call order
    built,          \* the dict the last _build_payload() call returned, as it
                    \* reads now: None or Some([json, sharesFiles])
    builtAt,        \* that dict as it read when it was returned
    _sync_client,   \* ForgeClient._sync_client: None or Some(handle id)
    _async_client,  \* ForgeClient._async_client: None or Some(handle id)
    handles,        \* handle id -> [kind, is_closed], every handle ever created
    tasks,          \* handle ids whose aclose() task is scheduled on the loop
    posts,          \* the POSTs issued, in order: [handle, path, json]
    gets,           \* the GETs issued, in order: [handle, path]
    sendCalls,      \* number of send / send_sync calls made
    last            \* the last client call: [op, outcome, result]

bvars == <<builder, source, called, lastArg, ncalls, raised, barcodeCalls,
           attachCalls, built, builtAt>>
nvars == <<_sync_client, _async_client, handles, tasks, posts, gets,
           sendCalls, last>>
vars == <<builder, source, called, lastArg, ncalls, raised, barcodeCalls,
          attachCalls, built, builtAt, _sync_client, _async_client, handles,
          tasks, posts, gets, sendCalls, last>>

----------------------------------------------------------------------------
(* Bounds *)

MaxCalls == 3
MaxFiles == 2
MaxNetCalls == 2

----------------------------------------------------------------------------
(* Python value encoding *)

None == <<>>
Some(v) == <<v>>
IsNotNone(x) == x # None
Get(x) == x[1]

EmptyDict == <<>>
Item(k, v) == k :> v
\* d[k] = v executed only when cond holds
PutIf(cond, k, v) == IF cond THEN k :> v ELSE EmptyDict
Keys(d) == DOMAIN d

----------------------------------------------------------------------------
(* forge_sdk/types.py: enum member name -> wire value *)

OutputFormat ==
    [PDF |-> "pdf", PNG |-> "png", JPEG |-> "jpeg", BMP |-> "bmp",
     TGA |-> "tga", QOI |-> "qoi", SVG |-> "svg"]

Orientation == [PORTRAIT |-> "portrait", LANDSCAPE |-> "landscape"]

Flow == [AUTO |-> "auto", PAGINATE |-> "paginate", CONTINUOUS |-> "continuous"]

DitherMethod ==
    [NONE |-> "none", FLOYD_STEINBERG |-> "floyd-steinberg",
     ATKINSON |-> "atkinson", ORDERED |-> "ordered"]

Palette ==
    [AUTO |-> "auto", BLACK_WHITE |-> "bw", GRAYSCALE |-> "grayscale",
     EINK |-> "eink"]

WatermarkLayer == [OVER |-> "over", UNDER |-> "under"]

PdfStandard == [NONE |-> "none", A2B |-> "pdf/a-2b", A3B |-> "pdf/a-3b"]

EmbedRelationship ==
    [ALTERNATIVE |-> "alternative", SUPPLEMENT |-> "supplement",
     DATA |-> "data", SOURCE |-> "source", UNSPECIFIED |-> "unspecified"]

BarcodeType ==
    [QR |-> "qr", CODE128 |-> "code128", EAN13 |-> "ean13", UPCA |-> "upca",
     CODE39 |-> "code39"]

BarcodeAnchor ==
    [TOP_LEFT |-> "top-left", TOP_RIGHT |-> "top-right",
     BOTTOM_LEFT |-> "bottom-left", BOTTOM_RIGHT |-> "bottom-right"]

\* member.value
EnumValue(enum, member) == enum[member]

----------------------------------------------------------------------------
(* Arguments the callers pass (type-correct, hence never None) *)

HtmlTexts == {Some("<h1>Hi</h1>")}
UrlTexts == {Some("https://example.com")}
FormatArgs == {"PDF", "PNG"}
WidthArgs == {Some(1280), Some(640)}
HeightArgs == {Some(800)}
PaperArgs == {Some("letter")}
OrientationArgs == {Some("LANDSCAPE")}
MarginsArgs == {Some("10,20,10,20")}
FlowArgs == {Some("PAGINATE")}
DensityArgs == {Some(300)}
BackgroundArgs == {Some("#ffffff")}
TimeoutArgs == {Some(60)}
ColorsArgs == {Some(16)}
\* palette(p): a Palette member or a sequence of hex strings
PaletteArgs ==
    {[isPalette |-> TRUE, member |-> "BLACK_WHITE", items |-> <<>>],
     [isPalette |-> FALSE, member |-> "", items |-> <<"#000000", "#ffffff">>],
     [isPalette |-> FALSE, member |-> "", items |-> <<>>]}
DitherArgs == {Some("ATKINSON")}
TitleArgs == {Some("Report")}
AuthorArgs == {Some("Centrix ERP")}
SubjectArgs == {Some("Monthly billing")}
KeywordsArgs == {Some("invoice,billing,2026")}
CreatorArgs == {Some("forge-sdk-python")}
BookmarksArgs == {Some(TRUE), Some(FALSE)}
WmTextArgs == {Some("DRAFT")}
WmImageArgs == {Some("aW1n")}
WmOpacityArgs == {Some(0)}
WmRotationArgs == {Some(-45)}
WmColorArgs == {Some("#888888")}
WmFontSizeArgs == {Some(48)}
WmScaleArgs == {Some(1)}
WmLayerArgs == {Some("UNDER")}
StandardArgs == {Some("A3B")}
\* pdf_attach(path, data, mime_type=, description=, relationship=)
AttachArgs ==
    {[path |-> "a.xml", data |-> "ZGF0YQ==", mime_type |-> None,
      description |-> None, relationship |-> None],
     [path |-> "a.xml", data |-> "ZGF0YQ==", mime_type |-> Some("text/xml"),
      description |-> None, relationship |-> Some("ALTERNATIVE")],
     [path |-> "b.txt", data |-> "ZGF0YQ==", mime_type |-> None,
      description |-> Some("notes"), relationship |-> None]}
WmPagesArgs == {"first"}
BarcodeTypeArgs == {"QR"}
BarcodeDataArgs == {"https://example.com/inv/123"}

----------------------------------------------------------------------------
(* RenderRequestBuilder.__init__ *)

NewBuilder(html, url) ==
    [_html |-> html, _url |-> url, _format |-> "PDF",
     _width |-> None, _height |-> None, _paper |-> None,
     _orientation |-> None, _margins |-> None, _flow |-> None,
     _density |-> None, _background |-> None, _timeout |-> None,
     _colors |-> None, _palette |-> None, _dither |-> None,
     _pdf_title |-> None, _pdf_author |-> None, _pdf_subject |-> None,
     _pdf_keywords |-> None, _pdf_creator |-> None, _pdf_bookmarks |-> None,
     _pdf_watermark_text |-> None, _pdf_watermark_image |-> None,
     _pdf_watermark_opacity |-> None, _pdf_watermark_rotation |-> None,
     _pdf_watermark_color |-> None, _pdf_watermark_font_size |-> None,
     _pdf_watermark_scale |-> None, _pdf_watermark_layer |-> None,
     _pdf_standard |-> None, _pdf_embedded_files |-> <<>>]

SetterNames ==
    {"format", "width", "height", "paper", "orientation", "margins", "flow",
     "density", "background", "timeout", "colors", "palette", "dither",
     "pdf_title", "pdf_author", "pdf_subject", "pdf_keywords", "pdf_creator",
     "pdf_bookmarks", "pdf_watermark_text", "pdf_watermark_image",
     "pdf_watermark_opacity", "pdf_watermark_rotation", "pdf_watermark_color",
     "pdf_watermark_font_size", "pdf_watermark_scale", "pdf_watermark_layer",
     "pdf_standard", "pdf_attach"}

----------------------------------------------------------------------------
(* RenderRequestBuilder._build_payload *)

has_quantize(b) ==
    \/ IsNotNone(b._colors)
    \/ IsNotNone(b._palette)
    \/ IsNotNone(b._dither)

has_watermark(b) ==
    \/ IsNotNone(b._pdf_watermark_text)
    \/ IsNotNone(b._pdf_watermark_image)
    \/ IsNotNone(b._pdf_watermark_opacity)
    \/ IsNotNone(b._pdf_watermark_rotation)
    \/ IsNotNone(b._pdf_watermark_color)
    \/ IsNotNone(b._pdf_watermark_font_size)
    \/ IsNotNone(b._pdf_watermark_scale)
    \/ IsNotNone(b._pdf_watermark_layer)

\* has_pdf without the watermark term
has_pdf_NoWatermark(b) ==
    \/ IsNotNone(b._pdf_title)
    \/ IsNotNone(b._pdf_author)
    \/ IsNotNone(b._pdf_subject)
    \/ IsNotNone(b._pdf_keywords)
    \/ IsNotNone(b._pdf_creator)
    \/ IsNotNone(b._pdf_bookmarks)
    \/ IsNotNone(b._pdf_standard)
    \/ Len(b._pdf_embedded_files) > 0

has_pdf(b) ==
    \/ IsNotNone(b._pdf_title)
    \/ IsNotNone(b._pdf_author)
    \/ IsNotNone(b._pdf_subject)
    \/ IsNotNone(b._pdf_keywords)
    \/ IsNotNone(b._pdf_creator)
    \/ IsNotNone(b._pdf_bookmarks)
    \/ has_watermark(b)
    \/ IsNotNone(b._pdf_standard)
    \/ Len(b._pdf_embedded_files) > 0

\* q with a preset palette written by its member name
QuantizeDict_PresetName(b) ==
    PutIf(IsNotNone(b._colors), "colors", Get(b._colors))
    @@ PutIf(IsNotNone(b._palette), "palette",
             IF Get(b._palette).isPalette
             THEN Get(b._palette).member
             ELSE Get(b._palette).items)
    @@ PutIf(IsNotNone(b._dither), "dither",
             EnumValue(DitherMethod, Get(b._dither)))

\* the dict q
QuantizeDict(b) ==
    PutIf(IsNotNone(b._colors), "colors", Get(b._colors))
    @@ PutIf(IsNotNone(b._palette), "palette",
             IF Get(b._palette).isPalette
             THEN EnumValue(Palette, Get(b._palette).member)
             ELSE Get(b._palette).items)
    @@ PutIf(IsNotNone(b._dither), "dither",
             EnumValue(DitherMethod, Get(b._dither)))

\* the dict wm
WatermarkDict(b) ==
    PutIf(IsNotNone(b._pdf_watermark_text), "text", Get(b._pdf_watermark_text))
    @@ PutIf(IsNotNone(b._pdf_watermark_image), "image_data",
             Get(b._pdf_watermark_image))
    @@ PutIf(IsNotNone(b._pdf_watermark_opacity), "opacity",
             Get(b._pdf_watermark_opacity))
    @@ PutIf(IsNotNone(b._pdf_watermark_rotation), "rotation",
             Get(b._pdf_watermark_rotation))
    @@ PutIf(IsNotNone(b._pdf_watermark_color), "color",
             Get(b._pdf_watermark_color))
    @@ PutIf(IsNotNone(b._pdf_watermark_font_size), "font_size",
             Get(b._pdf_watermark_font_size))
    @@ PutIf(IsNotNone(b._pdf_watermark_scale), "scale",
             Get(b._pdf_watermark_scale))
    @@ PutIf(IsNotNone(b._pdf_watermark_layer), "layer",
             EnumValue(WatermarkLayer, Get(b._pdf_watermark_layer)))

\* the dict p
PdfDict(b) ==
    PutIf(IsNotNone(b._pdf_title), "title", Get(b._pdf_title))
    @@ PutIf(IsNotNone(b._pdf_author), "author", Get(b._pdf_author))
    @@ PutIf(IsNotNone(b._pdf_subject), "subject", Get(b._pdf_subject))
    @@ PutIf(IsNotNone(b._pdf_keywords), "keywords", Get(b._pdf_keywords))
    @@ PutIf(IsNotNone(b._pdf_creator), "creator", Get(b._pdf_creator))
    @@ PutIf(IsNotNone(b._pdf_bookmarks), "bookmarks", Get(b._pdf_bookmarks))
    @@ PutIf(IsNotNone(b._pdf_standard), "standard",
             EnumValue(PdfStandard, Get(b._pdf_standard)))
    @@ PutIf(b._pdf_embedded_files # <<>>, "embedded_files",
             b._pdf_embedded_files)
    @@ PutIf(has_watermark(b), "watermark", WatermarkDict(b))

_build_payload(b) ==
    Item("format", EnumValue(OutputFormat, b._format))
    @@ PutIf(IsNotNone(b._html), "html", Get(b._html))
    @@ PutIf(IsNotNone(b._url), "url", Get(b._url))
    @@ PutIf(IsNotNone(b._width), "width", Get(b._width))
    @@ PutIf(IsNotNone(b._height), "height", Get(b._height))
    @@ PutIf(IsNotNone(b._paper), "paper", Get(b._paper))
    @@ PutIf(IsNotNone(b._orientation), "orientation",
             EnumValue(Orientation, Get(b._orientation)))
    @@ PutIf(IsNotNone(b._margins), "margins", Get(b._margins))
    @@ PutIf(IsNotNone(b._flow), "flow", EnumValue(Flow, Get(b._flow)))
    @@ PutIf(IsNotNone(b._density), "density", Get(b._density))
    @@ PutIf(IsNotNone(b._background), "background", Get(b._background))
    @@ PutIf(IsNotNone(b._timeout), "timeout", Get(b._timeout))
    @@ PutIf(has_quantize(b), "quantize", QuantizeDict(b))
    @@ PutIf(has_pdf(b), "pdf", PdfDict(b))

----------------------------------------------------------------------------
(* Builder calls.  Every setter assigns its own field and returns self.    *)

\* A dict returned by _build_payload holds, under pdf.embedded_files, the
\* builder's own list object (p["embedded_files"] = self._pdf_embedded_files)
\* whenever that list was not empty: an append to the list shows in the dict.
AfterAppend(b, entry) ==
    IF b # None /\ Get(b).sharesFiles
    THEN Some([json |-> [Get(b).json EXCEPT !["pdf"]["embedded_files"] =
                            Append(@, entry)],
               sharesFiles |-> TRUE])
    ELSE b

\* bookkeeping of one completed setter call
Called(name, arg) ==
    /\ ncalls < MaxCalls
    /\ called' = called \cup {name}
    /\ lastArg' = [lastArg EXCEPT ![name] = arg]
    /\ ncalls' = ncalls + 1
    /\ raised' = "none"
    /\ attachCalls' = IF name = "pdf_attach"
                      THEN Append(attachCalls, Get(arg))
                      ELSE attachCalls
    /\ built' = IF name = "pdf_attach"
                THEN AfterAppend(built,
                                 builder'._pdf_embedded_files[
                                     Len(builder'._pdf_embedded_files)])
                ELSE built
    /\ UNCHANGED builtAt
    /\ UNCHANGED <<source, barcodeCalls>>
    /\ UNCHANGED nvars

format(fmt) ==
    /\ builder' = [builder EXCEPT !._format = fmt]
    /\ Called("format", Some(fmt))

\* width assigning the height field
width_SetsHeight(px) ==
    /\ builder' = [builder EXCEPT !._height = px]
    /\ Called("width", px)

width(px) ==
    /\ builder' = [builder EXCEPT !._width = px]
    /\ Called("width", px)

height(px) ==
    /\ builder' = [builder EXCEPT !._height = px]
    /\ Called("height", px)

paper(size) ==
    /\ builder' = [builder EXCEPT !._paper = size]
    /\ Called("paper", size)

orientation(o) ==
    /\ builder' = [builder EXCEPT !._orientation = o]
    /\ Called("orientation", o)

margins(m) ==
    /\ builder' = [builder EXCEPT !._margins = m]
    /\ Called("margins", m)

flow(f) ==
    /\ builder' = [builder EXCEPT !._flow = f]
    /\ Called("flow", f)

density(dpi) ==
    /\ builder' = [builder EXCEPT !._density = dpi]
    /\ Called("density", dpi)

background(color) ==
    /\ builder' = [builder EXCEPT !._background = color]
    /\ Called("background", color)

timeout(seconds) ==
    /\ builder' = [builder EXCEPT !._timeout = seconds]
    /\ Called("timeout", seconds)

colors(n) ==
    /\ builder' = [builder EXCEPT !._colors = n]
    /\ Called("colors", n)

\* palette also resetting the colour count
palette_ClearsColors(p) ==
    /\ builder' = [builder EXCEPT !._palette = Some(p), !._colors = None]
    /\ Called("palette", Some(p))

palette(p) ==
    /\ builder' = [builder EXCEPT !._palette =
                      IF p.isPalette
                      THEN Some(p)
                      ELSE Some([isPalette |-> FALSE, member |-> "",
                                 items |-> p.items])]
    /\ Called("palette", Some(p))

dither(method) ==
    /\ builder' = [builder EXCEPT !._dither = method]
    /\ Called("dither", method)

pdf_title(t) ==
    /\ builder' = [builder EXCEPT !._pdf_title = t]
    /\ Called("pdf_title", t)

pdf_author(a) ==
    /\ builder' = [builder EXCEPT !._pdf_author = a]
    /\ Called("pdf_author", a)

pdf_subject(s) ==
    /\ builder' = [builder EXCEPT !._pdf_subject = s]
    /\ Called("pdf_subject", s)

pdf_keywords(k) ==
    /\ builder' = [builder EXCEPT !._pdf_keywords = k]
    /\ Called("pdf_keywords", k)

pdf_creator(c) ==
    /\ builder' = [builder EXCEPT !._pdf_creator = c]
    /\ Called("pdf_creator", c)

pdf_bookmarks(b) ==
    /\ builder' = [builder EXCEPT !._pdf_bookmarks = b]
    /\ Called("pdf_bookmarks", b)

pdf_watermark_text(t) ==
    /\ builder' = [builder EXCEPT !._pdf_watermark_text = t]
    /\ Called("pdf_watermark_text", t)

pdf_watermark_image(base64_data) ==
    /\ builder' = [builder EXCEPT !._pdf_watermark_image = base64_data]
    /\ Called("pdf_watermark_image", base64_data)

pdf_watermark_opacity(o) ==
    /\ builder' = [builder EXCEPT !._pdf_watermark_opacity = o]
    /\ Called("pdf_watermark_opacity", o)

pdf_watermark_rotation(d) ==
    /\ builder' = [builder EXCEPT !._pdf_watermark_rotation = d]
    /\ Called("pdf_watermark_rotation", d)

pdf_watermark_color(c) ==
    /\ builder' = [builder EXCEPT !._pdf_watermark_color = c]
    /\ Called("pdf_watermark_color", c)

pdf_watermark_font_size(s) ==
    /\ builder' = [builder EXCEPT !._pdf_watermark_font_size = s]
    /\ Called("pdf_watermark_font_size", s)

pdf_watermark_scale(s) ==
    /\ builder' = [builder EXCEPT !._pdf_watermark_scale = s]
    /\ Called("pdf_watermark_scale", s)

pdf_watermark_layer(l) ==
    /\ builder' = [builder EXCEPT !._pdf_watermark_layer = l]
    /\ Called("pdf_watermark_layer", l)

pdf_standard(standard) ==
    /\ builder' = [builder EXCEPT !._pdf_standard = standard]
    /\ Called("pdf_standard", standard)

\* the dict entry built by pdf_attach
AttachEntry(path, data, mime_type, description, relationship) ==
    Item("path", path) @@ Item("data", data)
    @@ PutIf(IsNotNone(mime_type), "mime_type", Get(mime_type))
    @@ PutIf(IsNotNone(description), "description", Get(description))
    @@ PutIf(IsNotNone(relationship), "relationship",
             EnumValue(EmbedRelationship, Get(relationship)))

\* pdf_attach inserting its entry at the front
pdf_attach_Prepends(path, data, mime_type, description, relationship) ==
    /\ Len(builder._pdf_embedded_files) < MaxFiles
    /\ builder' = [builder EXCEPT !._pdf_embedded_files =
                      <<AttachEntry(path, data, mime_type, description,
                                    relationship)>> \o @]
    /\ Called("pdf_attach",
              Some([path |-> path, data |-> data, mime_type |-> mime_type,
                    description |-> description,
                    relationship |-> relationship]))

pdf_attach(path, data, mime_type, description, relationship) ==
    /\ Len(builder._pdf_embedded_files) < MaxFiles
    /\ builder' = [builder EXCEPT !._pdf_embedded_files =
                      Append(@, AttachEntry(path, data, mime_type,
                                            description, relationship))]
    /\ Called("pdf_attach",
              Some([path |-> path, data |-> data, mime_type |-> mime_type,
                    description |-> description,
                    relationship |-> relationship]))

\* RenderRequestBuilder defines no attribute of this name: the call raises
\* AttributeError before anything is stored.
MissingMethod ==
    /\ ncalls < MaxCalls
    /\ ncalls' = ncalls + 1
    /\ raised' = "AttributeError"
    /\ UNCHANGED <<builder, source, called, lastArg, attachCalls, built,
                   builtAt>>
    /\ UNCHANGED nvars

pdf_barcode(type, data) ==
    /\ MissingMethod
    /\ barcodeCalls' = Append(barcodeCalls, [type |-> type, data |-> data])

pdf_watermark_pages(pages) ==
    /\ MissingMethod
    /\ UNCHANGED barcodeCalls

----------------------------------------------------------------------------
(* ForgeClient.render_html / render_url: a fresh builder *)

FreshBuilder(b, kind, text) ==
    /\ builder' = b
    /\ source' = [kind |-> kind, text |-> text]
    /\ called' = {}
    /\ lastArg' = [n \in SetterNames |-> None]
    /\ ncalls' = 0
    /\ raised' = "none"
    /\ barcodeCalls' = <<>>
    /\ attachCalls' = <<>>
    \* the new builder has a list of its own
    /\ built' = IF built = None THEN None
                ELSE Some([Get(built) EXCEPT !.sharesFiles = FALSE])
    /\ UNCHANGED builtAt

\* a caller calling _build_payload() and keeping the dict (as the tests do)
build_payload_call ==
    /\ built' = Some([json |-> _build_payload(builder),
                      sharesFiles |-> builder._pdf_embedded_files # <<>>])
    /\ builtAt' = Some(_build_payload(builder))
    /\ UNCHANGED <<builder, source, called, lastArg, ncalls, raised,
                   barcodeCalls, attachCalls>>
    /\ UNCHANGED nvars

render_html(html) ==
    /\ FreshBuilder(NewBuilder(html, None), "html", html)
    /\ UNCHANGED nvars

\* render_url passing its argument as html
render_url_AsHtml(url) ==
    /\ FreshBuilder(NewBuilder(url, None), "url", url)
    /\ UNCHANGED nvars

render_url(url) ==
    /\ FreshBuilder(NewBuilder(None, url), "url", url)
    /\ UNCHANGED nvars

SetterCall ==
    \/ \E fmt \in FormatArgs : format(fmt)
    \/ \E px \in WidthArgs : width(px)
    \/ \E px \in HeightArgs : height(px)
    \/ \E size \in PaperArgs : paper(size)
    \/ \E o \in OrientationArgs : orientation(o)
    \/ \E m \in MarginsArgs : margins(m)
    \/ \E f \in FlowArgs : flow(f)
    \/ \E dpi \in DensityArgs : density(dpi)
    \/ \E color \in BackgroundArgs : background(color)
    \/ \E seconds \in TimeoutArgs : timeout(seconds)
    \/ \E n \in ColorsArgs : colors(n)
    \/ \E p \in PaletteArgs : palette(p)
    \/ \E method \in DitherArgs : dither(method)
    \/ \E t \in TitleArgs : pdf_title(t)
    \/ \E a \in AuthorArgs : pdf_author(a)
    \/ \E s \in SubjectArgs : pdf_subject(s)
    \/ \E k \in KeywordsArgs : pdf_keywords(k)
    \/ \E c \in CreatorArgs : pdf_creator(c)
    \/ \E b \in BookmarksArgs : pdf_bookmarks(b)
    \/ \E t \in WmTextArgs : pdf_watermark_text(t)
    \/ \E base64_data \in WmImageArgs : pdf_watermark_image(base64_data)
    \/ \E o \in WmOpacityArgs : pdf_watermark_opacity(o)
    \/ \E d \in WmRotationArgs : pdf_watermark_rotation(d)
    \/ \E c \in WmColorArgs : pdf_watermark_color(c)
    \/ \E s \in WmFontSizeArgs : pdf_watermark_font_size(s)
    \/ \E s \in WmScaleArgs : pdf_watermark_scale(s)
    \/ \E l \in WmLayerArgs : pdf_watermark_layer(l)
    \/ \E standard \in StandardArgs : pdf_standard(standard)
    \/ \E a \in AttachArgs :
          pdf_attach(a.path, a.data, a.mime_type, a.description,
                     a.relationship)


----------------------------------------------------------------------------
(* What the transport (httpx) can answer to one request *)

StatusCodes == {200, 201, 400, 500}

\* A response body: whether resp.json() parses it, whether the parsed value
\* is a JSON object, and that object's members.
Bodies ==
    {[parses |-> FALSE, isObject |-> FALSE, members |-> "none"],
     [parses |-> TRUE, isObject |-> FALSE, members |-> "none"],
     [parses |-> TRUE, isObject |-> TRUE, members |-> "error"],
     [parses |-> TRUE, isObject |-> TRUE, members |-> "detail"]}

\* the members of a parsed JSON object
Members(body) ==
    IF body.members = "error" THEN Item("error", "bad request")
    ELSE IF body.members = "detail" THEN Item("detail", "no such page")
    ELSE EmptyDict

Outcomes ==
    [kind : {"response"}, status_code : StatusCodes, body : Bodies,
     exc : {"none"}]
    \cup [kind : {"HTTPError"}, status_code : {0}, body : {"none"},
          exc : {"ConnectError"}]
    \cup [kind : {"NotHTTPError"}, status_code : {0}, body : {"none"},
          exc : {"RuntimeError"}]

\* f"HTTP {resp.status_code}"
FormatHTTP(status_code) ==
    CASE status_code = 200 -> "HTTP 200"
      [] status_code = 201 -> "HTTP 201"
      [] status_code = 400 -> "HTTP 400"
      [] status_code = 500 -> "HTTP 500"

\* the try/except around resp.json() and body.get("error", ...)
ErrorMessage(resp) ==
    IF ~resp.body.parses
    THEN FormatHTTP(resp.status_code)        \* resp.json() raises
    ELSE IF ~resp.body.isObject
    THEN FormatHTTP(resp.status_code)        \* body.get raises
    ELSE IF "error" \in Keys(Members(resp.body))
    THEN Members(resp.body)["error"]
    ELSE FormatHTTP(resp.status_code)

\* only 4xx/5xx treated as an error
RenderResult_Only4xx5xx(outcome) ==
    IF outcome.kind = "HTTPError"
    THEN [kind |-> "ForgeConnectionError", cause |-> outcome.exc,
          status |-> 0, message |-> ""]
    ELSE IF outcome.kind = "NotHTTPError"
    THEN [kind |-> "raise", cause |-> outcome.exc, status |-> 0,
          message |-> ""]
    ELSE IF outcome.status_code >= 400
    THEN [kind |-> "ForgeServerError", cause |-> "none",
          status |-> outcome.status_code, message |-> ErrorMessage(outcome)]
    ELSE [kind |-> "bytes", cause |-> "none", status |-> 0, message |-> ""]

\* the transport error left unwrapped
RenderResult_Unwrapped(outcome) ==
    IF outcome.kind \in {"HTTPError", "NotHTTPError"}
    THEN [kind |-> "raise", cause |-> outcome.exc, status |-> 0,
          message |-> ""]
    ELSE IF outcome.status_code # 200
    THEN [kind |-> "ForgeServerError", cause |-> "none",
          status |-> outcome.status_code, message |-> ErrorMessage(outcome)]
    ELSE [kind |-> "bytes", cause |-> "none", status |-> 0, message |-> ""]

\* what send / send_sync make of the outcome of their POST
RenderResult(outcome) ==
    IF outcome.kind = "HTTPError"
    THEN [kind |-> "ForgeConnectionError", cause |-> outcome.exc,
          status |-> 0, message |-> ""]
    ELSE IF outcome.kind = "NotHTTPError"
    THEN [kind |-> "raise", cause |-> outcome.exc, status |-> 0,
          message |-> ""]
    ELSE IF outcome.status_code # 200
    THEN [kind |-> "ForgeServerError", cause |-> "none",
          status |-> outcome.status_code, message |-> ErrorMessage(outcome)]
    ELSE [kind |-> "bytes", cause |-> "none", status |-> 0, message |-> ""]

\* the probe without its except clause
HealthResult_NoExcept(outcome) ==
    IF outcome.kind \in {"HTTPError", "NotHTTPError"}
    THEN [kind |-> "raise", value |-> FALSE]
    ELSE [kind |-> "bool", value |-> (outcome.status_code = 200)]

\* what health / health_sync make of the outcome of their GET
HealthResult(outcome) ==
    IF outcome.kind = "HTTPError"
    THEN [kind |-> "bool", value |-> FALSE]
    ELSE IF outcome.kind = "NotHTTPError"
    THEN [kind |-> "raise", value |-> FALSE]
    ELSE [kind |-> "bool", value |-> (outcome.status_code = 200)]

----------------------------------------------------------------------------
(* ForgeClient: lazy handles *)

NewHandle(kind) == [kind |-> kind, is_closed |-> FALSE]

IsOpen(ref) == ref # None /\ ~handles[Get(ref)].is_closed

\* _get_sync_client making a new handle on every call
_get_sync_client_AlwaysNew ==
    [ref |-> Some(Len(handles) + 1),
     hs |-> Append(handles, NewHandle("sync"))]

\* the handle to use and the handle table after the call
_get_sync_client ==
    IF _sync_client = None \/ handles[Get(_sync_client)].is_closed
    THEN [ref |-> Some(Len(handles) + 1),
          hs |-> Append(handles, NewHandle("sync"))]
    ELSE [ref |-> _sync_client, hs |-> handles]

_get_async_client ==
    IF _async_client = None \/ handles[Get(_async_client)].is_closed
    THEN [ref |-> Some(Len(handles) + 1),
          hs |-> Append(handles, NewHandle("async"))]
    ELSE [ref |-> _async_client, hs |-> handles]

NetCallAllowed == Len(posts) + Len(gets) < MaxNetCalls

PostRecord(ref) ==
    [handle |-> Get(ref), path |-> "/render", json |-> _build_payload(builder)]

GetRecord(ref) == [handle |-> Get(ref), path |-> "/health"]

send(outcome) ==
    /\ NetCallAllowed
    /\ _async_client' = _get_async_client.ref
    /\ handles' = _get_async_client.hs
    /\ posts' = Append(posts, PostRecord(_get_async_client.ref))
    /\ sendCalls' = sendCalls + 1
    /\ last' = [op |-> "send", outcome |-> outcome,
                result |-> RenderResult(outcome)]
    /\ UNCHANGED <<_sync_client, tasks, gets>>
    /\ UNCHANGED bvars

\* send_sync posting a second time after a transport failure
send_sync_Retrying(outcome) ==
    /\ NetCallAllowed
    /\ _sync_client' = _get_sync_client.ref
    /\ handles' = _get_sync_client.hs
    /\ posts' = IF outcome.kind = "HTTPError"
                THEN posts \o <<PostRecord(_get_sync_client.ref),
                                PostRecord(_get_sync_client.ref)>>
                ELSE Append(posts, PostRecord(_get_sync_client.ref))
    /\ sendCalls' = sendCalls + 1
    /\ last' = [op |-> "send_sync", outcome |-> outcome,
                result |-> RenderResult(outcome)]
    /\ UNCHANGED <<_async_client, tasks, gets>>
    /\ UNCHANGED bvars

send_sync(outcome) ==
    /\ NetCallAllowed
    /\ _sync_client' = _get_sync_client.ref
    /\ handles' = _get_sync_client.hs
    /\ posts' = Append(posts, PostRecord(_get_sync_client.ref))
    /\ sendCalls' = sendCalls + 1
    /\ last' = [op |-> "send_sync", outcome |-> outcome,
                result |-> RenderResult(outcome)]
    /\ UNCHANGED <<_async_client, tasks, gets>>
    /\ UNCHANGED bvars

health(outcome) ==
    /\ NetCallAllowed
    /\ _async_client' = _get_async_client.ref
    /\ handles' = _get_async_client.hs
    /\ gets' = Append(gets, GetRecord(_get_async_client.ref))
    /\ last' = [op |-> "health", outcome |-> outcome,
                result |-> HealthResult(outcome)]
    /\ UNCHANGED <<_sync_client, tasks, posts, sendCalls>>
    /\ UNCHANGED bvars

health_sync(outcome) ==
    /\ NetCallAllowed
    /\ _sync_client' = _get_sync_client.ref
    /\ handles' = _get_sync_client.hs
    /\ gets' = Append(gets, GetRecord(_get_sync_client.ref))
    /\ last' = [op |-> "health_sync", outcome |-> outcome,
                result |-> HealthResult(outcome)]
    /\ UNCHANGED <<_async_client, tasks, posts, sendCalls>>
    /\ UNCHANGED bvars

\* handle table after closing the handle ref names, when it is open
Closed(hs, ref) ==
    IF ref # None /\ ~hs[Get(ref)].is_closed
    THEN [hs EXCEPT ![Get(ref)].is_closed = TRUE]
    ELSE hs

NoOutcome == [kind |-> "none"]
NoResult == [kind |-> "None"]

\* close(): the blocking handle is closed at once; for the suspending one
\* an aclose() task is scheduled when an event loop is running
\* (inLoop), and nothing is done when none is (RuntimeError, pass).
close(inLoop) ==
    /\ handles' = Closed(handles, _sync_client)
    /\ tasks' = IF IsOpen(_async_client) /\ inLoop
                THEN tasks \cup {Get(_async_client)}
                ELSE tasks
    /\ last' = [op |-> "close", outcome |-> NoOutcome, result |-> NoResult]
    /\ UNCHANGED <<_sync_client, _async_client, posts, gets, sendCalls>>
    /\ UNCHANGED bvars

\* __exit__ calls close()
__exit__(inLoop) ==
    /\ handles' = Closed(handles, _sync_client)
    /\ tasks' = IF IsOpen(_async_client) /\ inLoop
                THEN tasks \cup {Get(_async_client)}
                ELSE tasks
    /\ last' = [op |-> "__exit__", outcome |-> NoOutcome, result |-> NoResult]
    /\ UNCHANGED <<_sync_client, _async_client, posts, gets, sendCalls>>
    /\ UNCHANGED bvars

aclose ==
    /\ handles' = Closed(Closed(handles, _async_client), _sync_client)
    /\ last' = [op |-> "aclose", outcome |-> NoOutcome, result |-> NoResult]
    /\ UNCHANGED <<_sync_client, _async_client, tasks, posts, gets, sendCalls>>
    /\ UNCHANGED bvars

\* __aexit__ awaits aclose()
__aexit__ ==
    /\ handles' = Closed(Closed(handles, _async_client), _sync_client)
    /\ last' = [op |-> "__aexit__", outcome |-> NoOutcome, result |-> NoResult]
    /\ UNCHANGED <<_sync_client, _async_client, tasks, posts, gets, sendCalls>>
    /\ UNCHANGED bvars

\* the event loop runs a scheduled aclose() task
RunCloseTask(h) ==
    /\ h \in tasks
    /\ handles' = [handles EXCEPT ![h].is_closed = TRUE]
    /\ tasks' = tasks \ {h}
    /\ UNCHANGED <<_sync_client, _async_client, posts, gets, sendCalls, last>>
    /\ UNCHANGED bvars

----------------------------------------------------------------------------
(* ForgeClient.__init__, then one builder from render_html / render_url *)

InitClient ==
    /\ _sync_client = None
    /\ _async_client = None
    /\ handles = <<>>
    /\ tasks = {}
    /\ posts = <<>>
    /\ gets = <<>>
    /\ sendCalls = 0
    /\ last = [op |-> "__init__", outcome |-> NoOutcome, result |-> NoResult]

InitBuilder ==
    /\ \/ \E html \in HtmlTexts :
            builder = NewBuilder(html, None)
            /\ source = [kind |-> "html", text |-> html]
       \/ \E url \in UrlTexts :
            builder = NewBuilder(None, url)
            /\ source = [kind |-> "url", text |-> url]
    /\ called = {}
    /\ lastArg = [n \in SetterNames |-> None]
    /\ ncalls = 0
    /\ raised = "none"
    /\ barcodeCalls = <<>>
    /\ attachCalls = <<>>
    /\ built = None
    /\ builtAt = None

Init == InitClient /\ InitBuilder

Next ==
    \/ SetterCall
    \/ \E type \in BarcodeTypeArgs, data \in BarcodeDataArgs :
          pdf_barcode(type, data)
    \/ \E pages \in WmPagesArgs : pdf_watermark_pages(pages)
    \/ \E html \in HtmlTexts : render_html(html)
    \/ \E url \in UrlTexts : render_url(url)

Spec == Init /\ [][Next]_vars

\* The client's network life, with the builder calls a re-send needs
NextNet ==
    \/ \E outcome \in Outcomes : send(outcome)
    \/ \E outcome \in Outcomes : send_sync(outcome)
    \/ \E outcome \in Outcomes : health(outcome)
    \/ \E outcome \in Outcomes : health_sync(outcome)
    \/ \E inLoop \in BOOLEAN : close(inLoop)
    \/ \E inLoop \in BOOLEAN : __exit__(inLoop)
    \/ aclose
    \/ __aexit__
    \/ \E h \in tasks : RunCloseTask(h)
    \/ \E px \in HeightArgs : height(px)
    \/ \E html \in HtmlTexts : render_html(html)

SpecNet == Init /\ [][NextNet]_vars

\* A caller that keeps the dict of a _build_payload() call and goes on
\* using the builder
NextPayload ==
    \/ build_payload_call
    \/ \E a \in AttachArgs :
          pdf_attach(a.path, a.data, a.mime_type, a.description,
                     a.relationship)
    \/ \E p \in PaletteArgs : palette(p)
    \/ \E px \in WidthArgs : width(px)
    \/ \E t \in TitleArgs : pdf_title(t)
    \/ \E html \in HtmlTexts : render_html(html)

SpecPayload == Init /\ [][NextPayload]_vars

----------------------------------------------------------------------------
(* Wire keys of the payload field reference, by setter *)

ScalarSetters ==
    {"width", "height", "paper", "orientation", "margins", "flow", "density",
     "background", "timeout"}

QuantizeKey == [colors |-> "colors", palette |-> "palette", dither |-> "dither"]

WatermarkKey ==
    [pdf_watermark_text |-> "text", pdf_watermark_image |-> "image_data",
     pdf_watermark_opacity |-> "opacity", pdf_watermark_rotation |-> "rotation",
     pdf_watermark_color |-> "color", pdf_watermark_font_size |-> "font_size",
     pdf_watermark_scale |-> "scale", pdf_watermark_layer |-> "layer"]

PdfKey ==
    [pdf_title |-> "title", pdf_author |-> "author", pdf_subject |-> "subject",
     pdf_keywords |-> "keywords", pdf_creator |-> "creator",
     pdf_bookmarks |-> "bookmarks", pdf_standard |-> "standard",
     pdf_attach |-> "embedded_files"]

QuantizeSet == called \cap DOMAIN QuantizeKey
WatermarkSet == called \cap DOMAIN WatermarkKey
PdfSet == called \cap DOMAIN PdfKey
ScalarSet == called \cap ScalarSetters

Payload == _build_payload(builder)

----------------------------------------------------------------------------
----------------------------------------------------------------------------
\* the wire value of a scalar option, from the argument of its setter
ScalarWire(n, arg) ==
    CASE n = "orientation" -> Orientation[Get(arg)]
      [] n = "flow" -> Flow[Get(arg)]
      [] OTHER -> Get(arg)

ScalarsCarryLastValue ==
    /\ Payload["format"]
          = IF "format" \in called THEN OutputFormat[Get(lastArg["format"])]
            ELSE "pdf"
    /\ Payload[source.kind] = Get(source.text)
    /\ \A n \in ScalarSet : Payload[n] = ScalarWire(n, lastArg[n])

----------------------------------------------------------------------------
\* C3: after any sequence of setters the payload of a builder made by
\* render_html / render_url has exactly one of 'html' and 'url': the one
\* given at construction, with the value given at construction.
C3_ExactlyOneSource ==
    /\ source.kind = "html" =>
          /\ "html" \in Keys(Payload)
          /\ Payload["html"] = Get(source.text)
          /\ "url" \notin Keys(Payload)
    /\ source.kind = "url" =>
          /\ "url" \in Keys(Payload)
          /\ Payload["url"] = Get(source.text)
          /\ "html" \notin Keys(Payload)

\* a builder made by the render_url call, after setters
C3_Witness ==
    /\ source.kind = "url"
    /\ raised = "none"
    /\ Cardinality(called) >= 2
    /\ Keys(Payload) \cap {"html", "url"} = {"url"}

----------------------------------------------------------------------------
\* the Barcode entries the pdf_barcode calls ask for
BarcodeEntries ==
    [i \in 1..Len(barcodeCalls) |->
        [type |-> BarcodeType[barcodeCalls[i].type],
         data |-> barcodeCalls[i].data]]

\* C4: after k pdf_barcode(type, data) calls the payload has a 'pdf' object
\* whose 'barcodes' sequence holds the k entries in call order, each with
\* the enum's wire string as 'type' and the data as given; one barcode
\* alone makes 'pdf' present.
C4_BarcodesEmitted ==
    barcodeCalls # <<>> =>
        /\ "pdf" \in Keys(Payload)
        /\ "barcodes" \in Keys(Payload["pdf"])
        /\ Payload["pdf"]["barcodes"] = BarcodeEntries

----------------------------------------------------------------------------
SendOps == {"send", "send_sync"}
HealthOps == {"health", "health_sync"}

----------------------------------------------------------------------------
\* C6: a POST that fails at transport level ends the call in
\* ForgeConnectionError carrying the cause: never ForgeServerError, never
\* bytes.
C6_ConnectionError ==
    (last.op \in SendOps /\ last.outcome.kind = "HTTPError") =>
        /\ last.result.kind = "ForgeConnectionError"
        /\ last.result.cause = last.outcome.exc

C6_Witness ==
    /\ last.op = "send"
    /\ last.outcome.kind = "HTTPError"
    /\ last.result.kind = "ForgeConnectionError"
    /\ last.result.cause = "ConnectError"

----------------------------------------------------------------------------
\* C7: health / health_sync return true iff the GET got a response with
\* status 200; for any other status and for any transport failure they
\* return false and do not raise, whatever the client's state.
C7_HealthBoolean ==
    (last.op \in HealthOps /\ last.outcome.kind \in {"response", "HTTPError"})
        =>
        /\ last.result.kind = "bool"
        /\ last.result.value
              <=> (last.outcome.kind = "response"
                   /\ last.outcome.status_code = 200)

\* a probe on a client that was used and closed, failing at transport level
C7_Witness ==
    /\ last.op = "health"
    /\ last.outcome.kind = "HTTPError"
    /\ last.result = [kind |-> "bool", value |-> FALSE]
    /\ \E i \in DOMAIN handles : handles[i].is_closed

----------------------------------------------------------------------------
\* C8: once close() or __exit__ has returned, every transport handle the
\* client opened, blocking and suspending, is closed.
C8_AllClosedAfterClose ==
    last.op \in {"close", "__exit__"} =>
        \A i \in DOMAIN handles : handles[i].is_closed

----------------------------------------------------------------------------
\* key presence at every nesting level
Shape(p) ==
    [top |-> Keys(p),
     quantize |-> IF "quantize" \in Keys(p) THEN Keys(p["quantize"]) ELSE {},
     pdf |-> IF "pdf" \in Keys(p) THEN Keys(p["pdf"]) ELSE {},
     watermark |-> IF "pdf" \in Keys(p) /\ "watermark" \in Keys(p["pdf"])
                   THEN Keys(p["pdf"]["watermark"]) ELSE {}]

\* the key presence that a set of called setters stands for
ShapeOf(kind, setters) ==
    [top |-> {"format", kind} \cup (setters \cap ScalarSetters)
             \cup (IF setters \cap DOMAIN QuantizeKey # {}
                   THEN {"quantize"} ELSE {})
             \cup (IF setters \cap (DOMAIN PdfKey \cup DOMAIN WatermarkKey)
                        # {}
                   THEN {"pdf"} ELSE {}),
     quantize |-> {QuantizeKey[n] : n \in setters \cap DOMAIN QuantizeKey},
     pdf |-> {PdfKey[n] : n \in setters \cap DOMAIN PdfKey}
             \cup (IF setters \cap DOMAIN WatermarkKey # {}
                   THEN {"watermark"} ELSE {}),
     watermark |-> {WatermarkKey[n] : n \in setters \cap DOMAIN WatermarkKey}]

\* the keys of the entry one pdf_attach call asks for
EntryKeysOf(args) ==
    {"path", "data"}
    \cup {k \in {"mime_type", "description", "relationship"} :
            args[k] # None}

\* C9: the presence or absence of every key of the payload, at every
\* nesting level, is a function of the set of setters called: whatever the
\* order (and number) of the calls that led to a state, the payload's keys
\* are those the set of called setters stands for, and the entry of a
\* single pdf_attach call has the keys its arguments stand for.
C9_OrderIndependent ==
    /\ Shape(Payload) = ShapeOf(source.kind, called)
    /\ Len(attachCalls) = 1 =>
          Keys(Payload["pdf"]["embedded_files"][1])
              = EntryKeysOf(attachCalls[1])

\* three setters of two groups, reached in every order
C9_Witness ==
    /\ called = {"palette", "pdf_attach", "pdf_watermark_text"}
    /\ Shape(Payload).quantize = {"palette"}
    /\ Shape(Payload).pdf = {"embedded_files", "watermark"}
    /\ Shape(Payload).watermark = {"text"}

----------------------------------------------------------------------------
\* C10: every send / send_sync call issues exactly one POST /render, built
\* from the builder's state at that call, and nothing else issues one:
\* over any sequence of calls the requests issued are as many as the send
\* calls, whatever the outcome of each.
C10_Step ==
    \/ /\ sendCalls' = sendCalls
       /\ posts' = posts
    \/ /\ sendCalls' = sendCalls + 1
       /\ Len(posts') = Len(posts) + 1
       /\ SubSeq(posts', 1, Len(posts)) = posts
       /\ posts'[Len(posts')].path = "/render"
       /\ posts'[Len(posts')].json = _build_payload(builder)

C10_OneRequestPerSend ==
    [](Len(posts) = sendCalls) /\ [][C10_Step]_vars

\* the same builder sent twice, changed in between, the first send failing
C10_Witness ==
    /\ sendCalls = 2
    /\ Len(posts) = 2
    /\ Keys(posts[1].json) # Keys(posts[2].json)
    /\ last.op \in SendOps
    /\ last.result.kind = "ForgeServerError"

----------------------------------------------------------------------------
\* the EmbeddedFile entry one pdf_attach call asks for: path and data as
\* given, and each optional member only when the call supplied it
EntryOf(args) ==
    [k \in EntryKeysOf(args) |->
        CASE k = "path" -> args.path
          [] k = "data" -> args.data
          [] k = "mime_type" -> Get(args.mime_type)
          [] k = "description" -> Get(args.description)
          [] k = "relationship" -> EmbedRelationship[Get(args.relationship)]]

\* C11: after n pdf_attach calls the payload's pdf.embedded_files has
\* exactly n entries in call order, entry i holding the path and data of
\* call i and only the optional members (mime_type, description,
\* relationship as its wire string) that call i supplied; no other setter
\* reorders, drops or duplicates entries.
C11_AttachAccumulates ==
    IF attachCalls = <<>>
    THEN ~("pdf" \in Keys(Payload)
           /\ "embedded_files" \in Keys(Payload["pdf"]))
    ELSE /\ "pdf" \in Keys(Payload)
         /\ "embedded_files" \in Keys(Payload["pdf"])
         /\ Len(Payload["pdf"]["embedded_files"]) = Len(attachCalls)
         /\ \A i \in 1..Len(attachCalls) :
               Payload["pdf"]["embedded_files"][i] = EntryOf(attachCalls[i])

\* two different attachments, then another setter
C11_Witness ==
    /\ Len(attachCalls) = 2
    /\ attachCalls[1].path = "b.txt"
    /\ attachCalls[2].relationship = Some("ALTERNATIVE")
    /\ called = {"pdf_attach", "pdf_title"}
    /\ Payload["pdf"]["embedded_files"][2]["relationship"] = "alternative"
    /\ Keys(Payload["pdf"]["embedded_files"][1])
          = {"path", "data", "description"}

----------------------------------------------------------------------------
PaletteWireStrings == {"auto", "bw", "grayscale", "eink"}

\* C12: quantize.palette is decided by the last palette() call: a preset
\* serializes to its enum wire string (auto, bw, grayscale, eink), a custom
\* palette to the exact sequence of hex strings passed, same elements in
\* the same order; the payload has the one 'palette' value only, and none
\* when palette() was never called.
C12_PaletteChoice ==
    IF "palette" \notin called
    THEN ~("quantize" \in Keys(Payload)
           /\ "palette" \in Keys(Payload["quantize"]))
    ELSE /\ "quantize" \in Keys(Payload)
         /\ "palette" \in Keys(Payload["quantize"])
         /\ IF Get(lastArg["palette"]).isPalette
            THEN /\ Payload["quantize"]["palette"] \in PaletteWireStrings
                 /\ Payload["quantize"]["palette"]
                       = Palette[Get(lastArg["palette"]).member]
            ELSE Payload["quantize"]["palette"]
                    = Get(lastArg["palette"]).items

\* palette() called more than once, the last time with a custom sequence
C12_Witness ==
    /\ called = {"palette"}
    /\ ncalls >= 2
    /\ ~Get(lastArg["palette"]).isPalette
    /\ Payload["quantize"]["palette"] = <<"#000000", "#ffffff">>

\* ... and the last time with a preset
C12_WitnessPreset ==
    /\ called = {"palette"}
    /\ ncalls >= 2
    /\ Get(lastArg["palette"]).isPalette
    /\ Payload["quantize"]["palette"] = "bw"

----------------------------------------------------------------------------
OpenHandles(kind) ==
    {i \in DOMAIN handles : handles[i].kind = kind /\ ~handles[i].is_closed}

\* at most one open handle of each style, and it is the one the client holds
C13_AtMostOneOpen ==
    /\ OpenHandles("sync") \subseteq
          (IF _sync_client = None THEN {} ELSE {Get(_sync_client)})
    /\ OpenHandles("async") \subseteq
          (IF _async_client = None THEN {} ELSE {Get(_async_client)})
    /\ (posts = <<>> /\ gets = <<>>) => handles = <<>>

\* a step that issues a request uses the open handle of its style when the
\* client holds one and creates exactly one handle otherwise; a step that
\* issues no request (render_html, a setter, close) creates no handle
C13_Step ==
    LET newPost == Len(posts') > Len(posts)
        newGet == Len(gets') > Len(gets)
        used == IF newPost THEN posts'[Len(posts')].handle
                ELSE gets'[Len(gets')].handle
        style == IF last'.op \in {"send_sync", "health_sync"}
                 THEN "sync" ELSE "async"
        prev == IF style = "sync" THEN _sync_client ELSE _async_client
    IN  IF newPost \/ newGet
        THEN /\ handles'[used].kind = style
             /\ ~handles'[used].is_closed
             /\ IF IsOpen(prev)
                THEN used = Get(prev) /\ Len(handles') = Len(handles)
                ELSE used = Len(handles) + 1
                     /\ Len(handles') = Len(handles) + 1
        ELSE Len(handles') = Len(handles)

\* C13: handles are created lazily and reused: constructing the client,
\* render_html and the setters create no handle and issue no request; the
\* first blocking call creates the blocking handle, the first suspending
\* call the suspending one; with no close in between every later call of
\* a style uses the same handle, so at most one open handle of each style
\* exists at any time.
C13_LazyReusedHandles == []C13_AtMostOneOpen /\ [][C13_Step]_vars

\* two blocking calls through the one blocking handle
C13_Witness ==
    /\ Len(posts) = 1
    /\ Len(gets) = 1
    /\ Len(handles) = 1
    /\ handles[1].kind = "sync"
    /\ posts[1].handle = 1
    /\ gets[1].handle = 1

----------------------------------------------------------------------------
\* C14: a payload that was produced is independent of the builder
\* afterwards: no setter called after it was produced (pdf_attach included)
\* changes its content.
C14_PayloadIndependent ==
    built # None => Get(built).json = Get(builtAt)

\* _build_payload changes no builder field
C14_BuildIsPure ==
    [][(builtAt' # builtAt \/ built' # built) => builder' = builder]_vars

====
